---- MODULE Spec2Model ----
(***************************************************************************)
(* The Jinx O party game: React clients (App.tsx) over one JSON document   *)
(* per room in a realtime database (firebase-service.ts).                  *)
(*                                                                         *)
(* The store is modelled as the database keeps it: a room is a tree, a     *)
(* node without children does not exist, `set` replaces a node, `update`   *)
(* replaces the named children (a key holding a path, "players/x/isHost",  *)
(* writes that descendant and creates the nodes on the way).  Records are  *)
(* therefore partial: a field that was never written is not in the DOMAIN. *)
(* Every client works on its own snapshot of the room, the last one the    *)
(* subscription delivered, and writes what it computes from that snapshot. *)
(***************************************************************************)
EXTENDS Integers, Sequences, FiniteSets, TLC

(* ------------------------------ bounds -------------------------------- *)
\* The user ids (one browser each; the id is kept in localStorage).
Uids == {"a", "b", "c"}
\* localeCompare on the ids above.
Rank == [a |-> 1, b |-> 2, c |-> 3]
\* The room codes handleCreateRoom can draw and a joiner can type.
RoomIds == {"1234"}
\* The names typed in the name input.
Names == {"ann"}
\* The words typed in a grid cell, and the cells the players touch.
Words == {"w"}
GridIndexes == {0}
\* The topic texts the host types, and the topic inputs the host uses.
TopicTexts == {"t"}
TopicIndexes == {0}
\* What the users do in one run: the buttons they press, the fields they edit,
\* the tabs they close.
MaxMoves == 3
\* Host-claim writes one client may have on the way to the store.
MaxInFlight == 1
\* Writes of the others a subscribed client may not have been notified of yet.
MaxLag == 2

(* --------------------------- types.ts, App.tsx ------------------------ *)
\* The members `export enum GamePhase` declares.
GamePhase == {"LOBBY", "SELECT_THEMES", "WRITING", "SCORING", "VALIDATION", "FINISHED"}
\* The value of the expression GamePhase.SELECT_TOPICS that App.tsx writes and
\* compares with: the enum declares no such member, so it is a value of its
\* own, different from every declared member.
SELECT_TOPICS == "SELECT_TOPICS"
ScoreType == {"NONE", "O", "X", "STAR"}
scores == <<"NONE", "O", "X", "STAR">>
GridSize == 9
Cells == 0 .. (GridSize - 1)

EmptyMap == [k \in {} |-> k]
emptyCell == [word |-> "", score |-> "NONE"]
createEmptyGrid == [i \in Cells |-> emptyCell]
emptyTopics == <<"", "", "">>

\* {...r, ...upd}, and the database's update of the named children.
Merge(r, upd) ==
  [k \in DOMAIN r \cup DOMAIN upd |-> IF k \in DOMAIN upd THEN upd[k] ELSE r[k]]

\* room.players || {}
PlayersOf(r) == IF "players" \in DOMAIN r THEN r.players ELSE EmptyMap
\* p.status, room.hostId, room.phase: undefined when never written.
StatusOf(p) == IF "status" \in DOMAIN p THEN p.status ELSE "undefined"
HostIdOf(r) == IF "hostId" \in DOMAIN r THEN r.hostId ELSE "undefined"
PhaseOf(r) == IF "phase" \in DOMAIN r THEN r.phase ELSE "undefined"
IsHostOf(p) == "isHost" \in DOMAIN p /\ p.isHost

(* ------------------- calculateFinalScores: the formula ---------------- *)
rowBonuses == <<3, 2, 1>>
colBonuses == <<1, 2, 3>>

\* The points of a cell as the legend under the board has them: a variation
\* the scoring formula is tried against.
CellPointsStarThree(cell) ==
  (IF cell.score = "O" THEN 1 ELSE 0) + (IF cell.score = "STAR" THEN 3 ELSE 0)

\* p.grid.forEach(cell => ...): the points one cell adds.
CellPoints(cell) ==
  (IF cell.score = "O" THEN 1 ELSE 0) + (IF cell.score = "STAR" THEN 2 ELSE 0)

RECURSIVE BaseScoreFrom(_, _)
BaseScoreFrom(grid, i) ==
  IF i = GridSize THEN 0 ELSE CellPoints(grid[i]) + BaseScoreFrom(grid, i + 1)

IsRowBingo(grid, r) ==
  \A offset \in 0 .. 2 :
    LET s == grid[(r * 3) + offset].score IN s = "O" \/ s = "STAR"

IsColBingo(grid, c) ==
  \A offset \in 0 .. 2 :
    LET s == grid[c + (offset * 3)].score IN s = "O" \/ s = "STAR"

RECURSIVE RowBonusFrom(_, _)
RowBonusFrom(grid, r) ==
  IF r = 3 THEN 0
  ELSE (IF IsRowBingo(grid, r) THEN rowBonuses[r + 1] ELSE 0) + RowBonusFrom(grid, r + 1)

RECURSIVE ColBonusFrom(_, _)
ColBonusFrom(grid, c) ==
  IF c = 3 THEN 0
  ELSE (IF IsColBingo(grid, c) THEN colBonuses[c + 1] ELSE 0) + ColBonusFrom(grid, c + 1)

\* roundTotal of one player.
RoundTotal(grid) ==
  BaseScoreFrom(grid, 0) + RowBonusFrom(grid, 0) + ColBonusFrom(grid, 0)

(* ------------------------------- state -------------------------------- *)
VARIABLES
  rooms,      \* the store: room id -> room document, for the rooms that exist
  onDisc,     \* the onDisconnect hooks the server holds: <<room id, uid>>
  stored,     \* localStorage of each browser: <<>> or <<name>> (the id is the browser's)
  user,       \* App state `user`: <<>> (null) or <<[id, name]>>
  roomId,     \* App state `roomId`: "" or a room id
  room,       \* App state `room`: <<>> (null) or <<the last snapshot>>
  error,      \* App state `error`
  joining,    \* a joinRoom between its read and its write: <<>> or <<[rid, name, players]>>
  leaving,    \* a leaveRoom in progress: <<>> or <<[pc, rid, isHost, marked, read]>>
              \* (marked, the room as the first write left it, is kept for the properties)
  claims,     \* host-claim writes on their way to the store, per client, in order
  lag,        \* per client: writes of the others to its room it was not notified of
  moves       \* what the users did since the initial state, counted

vars == <<rooms, onDisc, stored, user, roomId, room, error, joining, leaving, claims,
          lag, moves>>

\* The App of every browser as it mounts, over a store without rooms.
InitEmpty ==
  /\ rooms = EmptyMap
  /\ onDisc = {}
  /\ stored = [c \in Uids |-> <<>>]
  /\ user = [c \in Uids |-> <<>>]
  /\ roomId = [c \in Uids |-> ""]
  /\ room = [c \in Uids |-> <<>>]
  /\ error = [c \in Uids |-> ""]
  /\ joining = [c \in Uids |-> <<>>]
  /\ leaving = [c \in Uids |-> <<>>]
  /\ claims = [c \in Uids |-> <<>>]
  /\ lag = [c \in Uids |-> 0]
  /\ moves = 0

\* The phases a host's buttons lead through, in order, from a new room.
PhasePath == <<"LOBBY", SELECT_TOPICS, "WRITING", "SCORING", "VALIDATION", "FINISHED">>

\* The room host created (handleCreateRoom) and the guests joined (joinRoom),
\* after the host pressed its buttons up to the phase ph without anybody
\* touching a topic or a cell.
PlayedRoom(rid, name, host, guests, ph) ==
  [id |-> rid, hostId |-> host, topics |-> <<"", "", "">>, phase |-> ph,
   players |-> [u \in {host} \cup guests |->
                  [id |-> u, name |-> name, isHost |-> (u = host),
                   grid |-> [i \in Cells |-> [word |-> "", score |-> "NONE"]],
                   totalScore |-> 0, isReady |-> FALSE, status |-> "active"]],
   createdAt |-> 0]

\* A game on its way: the room above in the store, every notification
\* delivered, nothing in progress.
InitPlayed(rid, name, host, guests, ph) ==
  LET in == {host} \cup guests
      r == PlayedRoom(rid, name, host, guests, ph)
  IN
  /\ rooms = [k \in {rid} |-> r]
  /\ onDisc = {<<rid, g>> : g \in guests}
  /\ stored = [c \in Uids |-> IF c \in in THEN <<name>> ELSE <<>>]
  /\ user = [c \in Uids |-> IF c \in in THEN <<[id |-> c, name |-> name]>> ELSE <<>>]
  /\ roomId = [c \in Uids |-> IF c \in in THEN rid ELSE ""]
  /\ room = [c \in Uids |-> IF c \in in THEN <<r>> ELSE <<>>]
  /\ error = [c \in Uids |-> ""]
  /\ joining = [c \in Uids |-> <<>>]
  /\ leaving = [c \in Uids |-> <<>>]
  /\ claims = [c \in Uids |-> <<>>]
  /\ lag = [c \in Uids |-> 0]
  /\ moves = 0

\* The games the runs start from: host, guests, and the phases they are in.
Tables ==
  {<<"a", {"b"}, ph>> : ph \in 1 .. Len(PhasePath)}
    \cup {<<"c", {"b"}, 1>>, <<"c", {"a", "b"}, 1>>}

Init ==
  \/ InitEmpty
  \/ \E rid \in RoomIds, name \in Names, t \in Tables :
       InitPlayed(rid, name, t[1], t[2], PhasePath[t[3]])

(* ------------------------ the realtime database ----------------------- *)
\* snapshot.val() of rooms/<rid>: the empty record stands for null.
RoomAt(rid) == IF rid \in DOMAIN rooms THEN rooms[rid] ELSE EmptyMap

\* A node without children does not exist.
Prune(r) ==
  IF "players" \in DOMAIN r /\ DOMAIN r.players = {}
  THEN [k \in DOMAIN r \ {"players"} |-> r[k]]
  ELSE r

\* update(ref(rooms/<rid>/players/<uid>), upd), and the same write as a path key
\* "players/<uid>/<field>" of an update of the room.
UpdatePlayer(r, uid, upd) ==
  LET ps == PlayersOf(r)
      old == IF uid \in DOMAIN ps THEN ps[uid] ELSE EmptyMap
  IN Merge(r, [players |-> Merge(ps, uid :> Merge(old, upd))])

\* A write to rooms/<rid>: set(room), remove(), or update(children, paths) with
\* `paths` the keys "players/<uid>/...": <<uid, fields>>, in order.
SetOf(r) == [kind |-> "set", value |-> r]
Removal == [kind |-> "remove"]
UpdateOf(children, paths) == [kind |-> "update", children |-> children, paths |-> paths]

RECURSIVE WithPaths(_, _)
WithPaths(r, paths) ==
  IF paths = <<>> THEN r
  ELSE WithPaths(UpdatePlayer(r, paths[1][1], paths[1][2]), Tail(paths))

\* The room after the write w.
Written(r, w) ==
  IF w.kind = "remove" THEN EmptyMap
  ELSE IF w.kind = "set" THEN Prune(w.value)
  ELSE Prune(WithPaths(Merge(r, w.children), w.paths))

\* The store with rooms/<rid> holding r (removed when r has no children).
WithRoom(rid, r) ==
  IF DOMAIN r = {}
  THEN [k \in DOMAIN rooms \ {rid} |-> rooms[k]]
  ELSE [k \in DOMAIN rooms \cup {rid} |-> IF k = rid THEN r ELSE rooms[k]]

\* The clients whose subscription (the effect on [roomId, user]) listens to rid.
Subscribed(c, rid) == user[c] /= <<>> /\ roomId[c] = rid /\ rid /= ""

\* The write w of client c reaches rooms/<rid>: the others that listen to the
\* room have one more notification on its way.
\* `fresh` are the clients whose subscription ends or starts with the step.
StoreFresh(c, rid, w, fresh) ==
  LET after == Written(RoomAt(rid), w)
      met == {d \in Uids \ {c} : Subscribed(d, rid) /\ after /= RoomAt(rid)}
  IN /\ \A d \in met : lag[d] < MaxLag
     /\ rooms' = WithRoom(rid, after)
     /\ lag' = [d \in Uids |-> IF d \in fresh THEN 0
                               ELSE IF d \in met THEN lag[d] + 1 ELSE lag[d]]

\* A client's writes reach the store in the order it sent them: the host
\* claims it still has on their way come first (ClaimWrite).
InOrder(c) == claims[c] = <<>>

Store(c, rid, w) == InOrder(c) /\ StoreFresh(c, rid, w, {})

(* ----------------------------- App state ------------------------------ *)
\* What the component renders: the entry screen, or the game of `room`.
AtEntry(c) == user[c] = <<>> \/ room[c] = <<>>
InGame(c) == ~AtEntry(c)
\* One service call at a time per browser.
Idle(c) == joining[c] = <<>> /\ leaving[c] = <<>>
Snap(c) == room[c][1]
\* One more thing a user does, within the bound.
Move == moves < MaxMoves /\ moves' = moves + 1
IdOf(r) == IF "id" \in DOMAIN r THEN r.id ELSE "undefined"
\* room.players?.[user.id] is there: the main view is rendered.
MainView(c) == InGame(c) /\ c \in DOMAIN PlayersOf(Snap(c))
IsHostView(c) == MainView(c) /\ HostIdOf(Snap(c)) = c

(* ------------------- host claim effect (App.tsx 86-128) --------------- *)
ActiveIds(r) == {u \in DOMAIN PlayersOf(r) : StatusOf(PlayersOf(r)[u]) /= "leaved"}
IsHostGone(r) ==
  \/ HostIdOf(r) \notin DOMAIN PlayersOf(r)
  \/ StatusOf(PlayersOf(r)[HostIdOf(r)]) = "leaved"

\* The players activePlayers[0] can be: the active player with the smallest id.
\* An active entry without an id makes the comparator throw (or is never equal
\* to user.id when it is alone): the effect then sends nothing.
LeaderOf(r) ==
  LET ps == PlayersOf(r) IN
  IF \E u \in ActiveIds(r) : "id" \notin DOMAIN ps[u]
  THEN {}
  ELSE {u \in ActiveIds(r) : \A v \in ActiveIds(r) : Rank[ps[u].id] <= Rank[ps[v].id]}

\* The updates the effect may send for the `room` r on the client of uid: one
\* per value of the random draw, none when the effect returns early.
HostClaims(r, uid) ==
  IF "players" \in DOMAIN r /\ IsHostGone(r) /\ ActiveIds(r) /= {}
     /\ \E l \in LeaderOf(r) : PlayersOf(r)[l].id = uid
  THEN {[rid |-> IdOf(r), oldHostId |-> HostIdOf(r), newHostId |-> PlayersOf(r)[n].id,
         unset |-> IF HostIdOf(r) \in DOMAIN PlayersOf(r) THEN <<HostIdOf(r)>> ELSE <<>>]
        : n \in ActiveIds(r)}
  ELSE {}

\* updates of the host claim, and of leaveRoom's host transfer.
TransferOf(newHostId, oldIds) ==
  UpdateOf([hostId |-> newHostId],
           <<<<newHostId, [isHost |-> TRUE]>>>>
             \o (IF oldIds = <<>> THEN <<>> ELSE <<<<oldIds[1], [isHost |-> FALSE]>>>>))

ClaimOf(m) == TransferOf(m.newHostId, m.unset)

\* The listener of client c is called with r (a snapshot, or the local view of
\* a write of its own): setRoom(r), then the host claim effect, whose update
\* the listener sees at once.
SetRoom(c, r) ==
  IF user[c] = <<>> \/ HostClaims(r, c) = {}
  THEN /\ room' = [room EXCEPT ![c] = <<r>>]
       /\ claims' = claims
  ELSE /\ Len(claims[c]) < MaxInFlight
       /\ \E m \in HostClaims(r, c) :
            /\ room' = [room EXCEPT ![c] = <<Written(r, ClaimOf(m))>>]
            /\ claims' = [claims EXCEPT ![c] = Append(@, m)]

\* The local view of a write w of client c to the room it listens to.
Echo(c, rid, w) ==
  IF Subscribed(c, rid) /\ room[c] /= <<>> /\ DOMAIN Written(Snap(c), w) /= {}
  THEN SetRoom(c, Written(Snap(c), w))
  ELSE UNCHANGED <<room, claims>>

RECURSIVE WithClaims(_, _)
WithClaims(r, ms) ==
  IF ms = <<>> THEN r ELSE WithClaims(Written(r, ClaimOf(ms[1])), Tail(ms))

\* The subscription's callback (getRoom calls back only for data that is not
\* null): the room of the store under the client's writes still on their way.
Deliver(c) ==
  /\ Subscribed(c, roomId[c])
  /\ IF roomId[c] \in DOMAIN rooms
     THEN LET r == WithClaims(rooms[roomId[c]], claims[c]) IN
          /\ room[c] /= <<r>> \/ lag[c] > 0
          /\ SetRoom(c, r)
     ELSE /\ lag[c] > 0
          /\ UNCHANGED <<room, claims>>
  /\ lag' = [lag EXCEPT ![c] = 0]
  /\ UNCHANGED <<rooms, onDisc, stored, user, roomId, error, joining, leaving, moves>>

\* db.updateRoom(room.id, updates) of the host claim reaches the store.
ClaimWrite(c) ==
  /\ claims[c] /= <<>>
  /\ StoreFresh(c, Head(claims[c]).rid, ClaimOf(Head(claims[c])), {})
  /\ claims' = [claims EXCEPT ![c] = Tail(@)]
  /\ UNCHANGED <<onDisc, stored, user, roomId, room, error, joining, leaving, moves>>

(* --------------------- App.tsx: rooms, join, leave -------------------- *)
\* The check with the limit one character further: a variation the properties
\* of the name check are tried against.
NameTooLongByTwo(name) == Len(name) > 25

\* name.length > 24
NameTooLong(name) == Len(name) > 24

newPlayer(uid, name, isHost) ==
  [id |-> uid, name |-> name, isHost |-> isHost, grid |-> createEmptyGrid,
   totalScore |-> 0, isReady |-> FALSE, status |-> "active"]

\* now is Date.now(), on the clock of the model.
newRoom(rid, uid, name, now) ==
  [id |-> rid, hostId |-> uid, topics |-> emptyTopics, phase |-> "LOBBY",
   players |-> uid :> newPlayer(uid, name, TRUE), createdAt |-> now]

\* handleCreateRoom(name), with rid the room code drawn.  The subscription
\* that starts with it shows the room at once: the listener is called with
\* the value the set has put in the local cache.
handleCreateRoom(c, name, rid) ==
  /\ AtEntry(c) /\ Idle(c)
  /\ Move
  /\ IF NameTooLong(name)
     THEN /\ error' = [error EXCEPT ![c] = "Name must be 24 characters or less"]
          /\ UNCHANGED <<rooms, lag, stored, user, roomId, room>>
     ELSE /\ stored' = [stored EXCEPT ![c] = <<name>>]
          /\ user' = [user EXCEPT ![c] = <<[id |-> c, name |-> name]>>]
          /\ roomId' = [roomId EXCEPT ![c] = rid]
          /\ InOrder(c)
          /\ StoreFresh(c, rid, SetOf(newRoom(rid, c, name, moves + 1)), {c})
          /\ room' = [room EXCEPT ![c] = <<newRoom(rid, c, name, moves + 1)>>]
          /\ UNCHANGED error
  /\ UNCHANGED <<onDisc, joining, leaving, claims>>

\* updatedPlayers with the entry of a new player for everybody: a variation
\* the properties of a rejoin are tried against.
updatedPlayersAnew(r, uid, name) ==
  Merge(PlayersOf(r), uid :> newPlayer(uid, name, FALSE))

\* updatedPlayers of joinRoom for the snapshot r.
updatedPlayers(r, uid, name) ==
  LET ps == PlayersOf(r) IN
  IF uid \in DOMAIN ps
  THEN Merge(ps, uid :> Merge(ps[uid], [name |-> name, status |-> "active"]))
  ELSE Merge(ps, uid :> newPlayer(uid, name, FALSE))

\* err.message, for the error joinRoom rejects with.
RoomNotFound == "Room not found"

\* handleJoinRoom(name, targetRid) up to joinRoom's read of the room.
handleJoinRoom(c, name, rid) ==
  /\ AtEntry(c) /\ Idle(c)
  /\ Move
  /\ IF NameTooLong(name)
     THEN /\ error' = [error EXCEPT ![c] = "Name must be 24 characters or less"]
          /\ UNCHANGED <<stored, joining>>
     ELSE /\ stored' = [stored EXCEPT ![c] = <<name>>]
          /\ IF rid \notin DOMAIN rooms
             THEN /\ error' = [error EXCEPT ![c] = RoomNotFound]
                  /\ UNCHANGED joining
             ELSE /\ joining' = [joining EXCEPT ![c] =
                        <<[rid |-> rid, name |-> name,
                           players |-> updatedPlayers(rooms[rid], c, name)]>>]
                  /\ UNCHANGED error
  /\ UNCHANGED <<rooms, onDisc, user, roomId, room, leaving, claims, lag>>

\* joinRoom's update of the players, its onDisconnect hook, and handleJoinRoom's
\* continuation after the promise resolved.
JoinWrite(c) ==
  /\ joining[c] /= <<>>
  /\ LET j == joining[c][1] IN
     /\ InOrder(c)
     /\ StoreFresh(c, j.rid, UpdateOf([players |-> j.players], <<>>), {c})
     /\ onDisc' = onDisc \cup {<<j.rid, c>>}
     /\ user' = [user EXCEPT ![c] = <<[id |-> c, name |-> j.name]>>]
     /\ roomId' = [roomId EXCEPT ![c] = j.rid]
  /\ error' = [error EXCEPT ![c] = ""]
  /\ joining' = [joining EXCEPT ![c] = <<>>]
  /\ UNCHANGED <<stored, room, leaving, claims, moves>>

\* setRoom(null); setRoomId('') after leaveRoom returned.
LeftRoom(c) ==
  /\ room' = [room EXCEPT ![c] = <<>>]
  /\ roomId' = [roomId EXCEPT ![c] = ""]
  /\ leaving' = [leaving EXCEPT ![c] = <<>>]

\* handleLeaveRoom up to leaveRoom's first write: the leaver is marked leaved.
handleLeaveRoom(c) ==
  /\ InGame(c) /\ Idle(c)
  /\ Move
  /\ LET rid == IdOf(Snap(c))
         w == UpdateOf(EmptyMap, <<<<c, [status |-> "leaved"]>>>>)
     IN /\ Store(c, rid, w)
        /\ Echo(c, rid, w)
        /\ leaving' = [leaving EXCEPT ![c] =
             <<[pc |-> "marked", rid |-> rid, isHost |-> (c = HostIdOf(Snap(c))),
                marked |-> Written(RoomAt(rid), w), read |-> <<>>]>>]
  /\ UNCHANGED <<onDisc, stored, user, roomId, error, joining>>

\* allLeaved with some() in the place of every(): a variation the properties of
\* leaveRoom are tried against.
someLeaved(ps) == \E id \in DOMAIN ps : StatusOf(ps[id]) = "leaved"
\* allLeaved of the branch of a regular player.
allLeaved(ps) == \A id \in DOMAIN ps : StatusOf(ps[id]) = "leaved"

\* The write leaveRoom decides on for the room r it read: <<>> for none.
LeaveWrites(r, uid, isHost) ==
  LET ps == PlayersOf(r)
      remainingActive == {id \in DOMAIN ps : id /= uid /\ StatusOf(ps[id]) /= "leaved"}
      idIs(p) == "id" \in DOMAIN p /\ p.id = uid
      remainingLeaved == DOMAIN ps \ {uid}
  IN
  IF isHost
  THEN IF remainingActive /= {}
       THEN {<<TransferOf(n, <<uid>>)>> : n \in remainingActive}
       ELSE IF \A id \in DOMAIN ps : idIs(ps[id]) \/ StatusOf(ps[id]) = "leaved"
            THEN {<<Removal>>}
            ELSE IF remainingLeaved /= {}
                 THEN {<<TransferOf(n, <<uid>>)>> : n \in remainingLeaved}
                 ELSE {<<>>}
  ELSE IF allLeaved(ps)
       THEN {<<Removal>>}
       ELSE {<<>>}

\* leaveRoom's read of the latest room: it returns when the room is not there
\* or the branch it takes writes nothing.
LeaveRead(c) ==
  /\ leaving[c] /= <<>> /\ leaving[c][1].pc = "marked"
  /\ LET l == leaving[c][1] IN
     IF l.rid \notin DOMAIN rooms \/ LeaveWrites(rooms[l.rid], c, l.isHost) = {<<>>}
     THEN LeftRoom(c) /\ lag' = [lag EXCEPT ![c] = 0]
     ELSE /\ leaving' = [leaving EXCEPT ![c] = <<[l EXCEPT !.pc = "read", !.read = <<rooms[l.rid]>>]>>]
          /\ UNCHANGED <<room, roomId, lag>>
  /\ UNCHANGED <<rooms, onDisc, stored, user, error, joining, claims, moves>>

\* leaveRoom's last write (the host transfer, or remove(roomRef)), and its return.
LeaveWrite(c) ==
  /\ leaving[c] /= <<>> /\ leaving[c][1].pc = "read"
  /\ InOrder(c)
  /\ \E w \in LeaveWrites(leaving[c][1].read[1], c, leaving[c][1].isHost) :
       StoreFresh(c, leaving[c][1].rid, w[1], {c})
  /\ LeftRoom(c)
  /\ UNCHANGED <<onDisc, stored, user, error, joining, claims, moves>>

\* The browser loses its connection (the tab is closed or reloaded): the server
\* runs the hooks of that connection, after which nothing of what the browser
\* had sent arrives any more, and the App starts again from localStorage.
Disconnect(c) ==
  /\ roomId[c] /= "" \/ \E h \in onDisc : h[2] = c
  /\ Move
  /\ LET hooked == {h[1] : h \in {x \in onDisc : x[2] = c}}
         after(k) == Written(RoomAt(k), UpdateOf(EmptyMap, <<<<c, [status |-> "leaved"]>>>>))
         met == {d \in Uids \ {c} : \E k \in hooked : Subscribed(d, k) /\ after(k) /= RoomAt(k)}
     IN /\ \A d \in met : lag[d] < MaxLag
        /\ rooms' = [k \in DOMAIN rooms \cup hooked |-> IF k \in hooked THEN after(k) ELSE rooms[k]]
        /\ lag' = [d \in Uids |-> IF d = c THEN 0 ELSE IF d \in met THEN lag[d] + 1 ELSE lag[d]]
  /\ onDisc' = {h \in onDisc : h[2] /= c}
  /\ user' = [user EXCEPT ![c] =
                IF stored[c] = <<>> THEN <<>> ELSE <<[id |-> c, name |-> stored[c][1]]>>]
  /\ roomId' = [roomId EXCEPT ![c] = ""]
  /\ room' = [room EXCEPT ![c] = <<>>]
  /\ error' = [error EXCEPT ![c] = ""]
  /\ joining' = [joining EXCEPT ![c] = <<>>]
  /\ leaving' = [leaving EXCEPT ![c] = <<>>]
  /\ claims' = [claims EXCEPT ![c] = <<>>]
  /\ UNCHANGED stored

(* --------------------------- App.tsx: the game ------------------------ *)
\* db.updateRoom(room.id, updates) by client c, and what its listener shows.
updateRoom(c, updates) ==
  /\ Store(c, IdOf(Snap(c)), UpdateOf(updates, <<>>))
  /\ Echo(c, IdOf(Snap(c)), UpdateOf(updates, <<>>))

\* The buttons that call updatePhase: the phase that shows each to the host,
\* and the phase it writes.
PhaseButtons ==
  {<<"LOBBY", SELECT_TOPICS>>, <<SELECT_TOPICS, "WRITING">>,
   <<"WRITING", "SCORING">>, <<"SCORING", "VALIDATION">>}

\* updatePhase(nextPhase), called from the button shown in the phase `shown`.
updatePhase(c, shown, nextPhase) ==
  /\ Move
  /\ IsHostView(c)
  /\ PhaseOf(Snap(c)) = shown
  /\ updateRoom(c, [phase |-> nextPhase])
  /\ UNCHANGED <<onDisc, stored, user, roomId, error, joining, leaving>>

\* newTopics of a topic input's onChange: <<>> when the array would get a hole,
\* which the database refuses.
newTopics(r, i, text) ==
  LET old == IF "topics" \in DOMAIN r THEN r.topics ELSE <<>> IN
  IF i < Len(old) THEN <<[old EXCEPT ![i + 1] = text]>>
  ELSE IF i = Len(old) THEN <<Append(old, text)>>
  ELSE <<>>

\* onChange of topic input i (the host, in the topic selection phase).
SetTopic(c, i, text) ==
  /\ Move
  /\ IsHostView(c)
  /\ PhaseOf(Snap(c)) = SELECT_TOPICS
  /\ LET t == newTopics(Snap(c), i, text) IN
     IF t = <<>>
     THEN UNCHANGED <<rooms, lag, room, claims>>
     ELSE updateRoom(c, [topics |-> t[1]])
  /\ UNCHANGED <<onDisc, stored, user, roomId, error, joining, leaving>>

\* handleRestart: the room as the host's snapshot has it, reset.
resetPlayers(ps) ==
  [key \in DOMAIN ps |-> Merge(ps[key], [grid |-> createEmptyGrid, isReady |-> FALSE])]

handleRestart(c) ==
  /\ Move
  /\ IsHostView(c)
  /\ PhaseOf(Snap(c)) \in {"VALIDATION", "FINISHED"}
  /\ updateRoom(c, [phase |-> SELECT_TOPICS, topics |-> emptyTopics,
                    players |-> resetPlayers(PlayersOf(Snap(c)))])
  /\ UNCHANGED <<onDisc, stored, user, roomId, error, joining, leaving>>

\* newPlayers[user.id].grid[gridIndex].<field> = value: the assignment goes
\* through to the objects of the `room` state.
WithCell(r, uid, gridIndex, field, value) ==
  LET ps == PlayersOf(r)
      cell == [ps[uid].grid[gridIndex] EXCEPT ![field] = value]
  IN Merge(r, [players |-> Merge(ps, uid :>
        Merge(ps[uid], [grid |-> [ps[uid].grid EXCEPT ![gridIndex] = cell]]))])

HasGrid(c) == MainView(c) /\ "grid" \in DOMAIN PlayersOf(Snap(c))[c]

\* updateGrid (onChange of a cell's textarea): the local state only; setRoom
\* makes the host claim effect run again.
updateGrid(c, gridIndex, word) ==
  /\ Move
  /\ HasGrid(c) /\ PhaseOf(Snap(c)) = "WRITING"
  /\ SetRoom(c, WithCell(Snap(c), c, gridIndex, "word", word))
  /\ UNCHANGED <<rooms, lag, onDisc, stored, user, roomId, error, joining, leaving>>

\* saveGridToDb (onBlur of a cell's textarea).
saveGridToDb(c, gridIndex, word) ==
  /\ Move
  /\ HasGrid(c) /\ PhaseOf(Snap(c)) = "WRITING"
  /\ updateRoom(c, [players |-> WithCell(Snap(c), c, gridIndex, "word", word).players])
  /\ UNCHANGED <<onDisc, stored, user, roomId, error, joining, leaving>>

\* scores[(scores.indexOf(currentScore) + 1) % scores.length]
nextScore(currentScore) ==
  LET idx == CHOOSE i \in 0 .. 3 : scores[i + 1] = currentScore
  IN scores[((idx + 1) % Len(scores)) + 1]

\* cycleScore (a click on a cell in SCORING or VALIDATION).
cycleScore(c, gridIndex) ==
  /\ Move
  /\ HasGrid(c) /\ PhaseOf(Snap(c)) \in {"SCORING", "VALIDATION"}
  /\ LET cur == PlayersOf(Snap(c))[c].grid[gridIndex].score IN
     updateRoom(c, [players |-> WithCell(Snap(c), c, gridIndex, "score", nextScore(cur)).players])
  /\ UNCHANGED <<onDisc, stored, user, roomId, error, joining, leaving>>

\* undefined + roundTotal
NaN == -1
TotalOf(p) == IF "totalScore" \in DOMAIN p THEN p.totalScore ELSE NaN
AddScore(total, roundTotal) == IF total = NaN THEN NaN ELSE total + roundTotal

\* The players after the forEach of calculateFinalScores, which runs in key
\* order and stops (p.grid.forEach throws) at the first player without a grid.
scoredPlayers(ps) ==
  LET gridless == {u \in DOMAIN ps : "grid" \notin DOMAIN ps[u]}
      reached(u) == \A v \in gridless : Rank[u] < Rank[v]
  IN [u \in DOMAIN ps |->
        IF reached(u)
        THEN Merge(ps[u], [totalScore |-> AddScore(TotalOf(ps[u]), RoundTotal(ps[u].grid))])
        ELSE ps[u]]

\* calculateFinalScores ("Confirm & Finish Game"): the totals are added in
\* the objects of the `room` state; the update is sent when the loop did not
\* throw, and the database refuses a NaN.
calculateFinalScores(c) ==
  /\ IsHostView(c)
  /\ PhaseOf(Snap(c)) = "VALIDATION"
  /\ Move
  /\ LET ps == PlayersOf(Snap(c))
         newPlayers == scoredPlayers(ps)
         sent == /\ \A u \in DOMAIN ps : "grid" \in DOMAIN ps[u]
                 /\ \A u \in DOMAIN ps : newPlayers[u].totalScore /= NaN
     IN IF sent
        THEN updateRoom(c, [players |-> newPlayers, phase |-> "FINISHED"])
        ELSE /\ room' = [room EXCEPT ![c] = <<Merge(Snap(c), [players |-> newPlayers])>>]
             /\ UNCHANGED <<rooms, lag, claims>>
  /\ UNCHANGED <<onDisc, stored, user, roomId, error, joining, leaving>>

(* --------------------------- specification ---------------------------- *)
Next ==
  \/ \E c \in Uids, name \in Names, rid \in RoomIds : handleCreateRoom(c, name, rid)
  \/ \E c \in Uids, name \in Names, rid \in RoomIds : handleJoinRoom(c, name, rid)
  \/ \E c \in Uids : JoinWrite(c)
  \/ \E c \in Uids : handleLeaveRoom(c)
  \/ \E c \in Uids : LeaveRead(c)
  \/ \E c \in Uids : LeaveWrite(c)
  \/ \E c \in Uids : Deliver(c)
  \/ \E c \in Uids : ClaimWrite(c)
  \/ \E c \in Uids : Disconnect(c)
  \/ \E c \in Uids, b \in PhaseButtons : updatePhase(c, b[1], b[2])
  \/ \E c \in Uids, i \in TopicIndexes, text \in TopicTexts : SetTopic(c, i, text)
  \/ \E c \in Uids : handleRestart(c)
  \/ \E c \in Uids, i \in GridIndexes, w \in Words : updateGrid(c, i, w)
  \/ \E c \in Uids, i \in GridIndexes, w \in Words : saveGridToDb(c, i, w)
  \/ \E c \in Uids, i \in GridIndexes : cycleScore(c, i)
  \/ \E c \in Uids : calculateFinalScores(c)

Spec == Init /\ [][Next]_vars

(* ------------------- the scoring of one round, alone ------------------ *)
\* The total a player has from an earlier round (a STAR and an O) when this one is scored.
PriorTotals == {3}

\* A host alone in its room in VALIDATION, its nine cells scored by its clicks
\* (cycleScore) in any way, every notification delivered.
InitScore ==
  \E rid \in RoomIds, name \in Names, host \in {"a"}, total \in PriorTotals :
    \E marks \in [Cells -> ScoreType] :
      LET r0 == PlayedRoom(rid, name, host, {}, "VALIDATION")
          p == Merge(r0.players[host],
                     [grid |-> [i \in Cells |-> [word |-> "", score |-> marks[i]]],
                      totalScore |-> total])
          r == Merge(r0, [players |-> [u \in {host} |-> p]])
      IN
      /\ rooms = [k \in {rid} |-> r]
      /\ onDisc = {}
      /\ stored = [c \in Uids |-> IF c = host THEN <<name>> ELSE <<>>]
      /\ user = [c \in Uids |-> IF c = host THEN <<[id |-> c, name |-> name]>> ELSE <<>>]
      /\ roomId = [c \in Uids |-> IF c = host THEN rid ELSE ""]
      /\ room = [c \in Uids |-> IF c = host THEN <<r>> ELSE <<>>]
      /\ error = [c \in Uids |-> ""]
      /\ joining = [c \in Uids |-> <<>>]
      /\ leaving = [c \in Uids |-> <<>>]
      /\ claims = [c \in Uids |-> <<>>]
      /\ lag = [c \in Uids |-> 0]
      /\ moves = 0

NextScore == \E c \in Uids : calculateFinalScores(c)

SpecScore == InitScore /\ [][NextScore]_vars

(* ------------------------------ scoring ------------------------------- *)
\* The cells of the rows and of the columns of the 3 x 3 grid, top to bottom
\* and left to right.
GridRows == <<{0, 1, 2}, {3, 4, 5}, {6, 7, 8}>>
GridCols == <<{0, 3, 6}, {1, 4, 7}, {2, 5, 8}>>
Marked(grid, s) == Cardinality({i \in Cells : grid[i].score = s})
Bingo(grid, line) == \A i \in line : grid[i].score \in {"O", "STAR"}
Bonus(grid, lines, bonus, k) == IF Bingo(grid, lines[k]) THEN bonus[k] ELSE 0
LineBonuses(grid, lines, bonus) ==
  Bonus(grid, lines, bonus, 1) + Bonus(grid, lines, bonus, 2) + Bonus(grid, lines, bonus, 3)

\* The step of a calculateFinalScores whose update reaches the store.
Scored(c) ==
  /\ calculateFinalScores(c)
  /\ IdOf(Snap(c)) \in DOMAIN rooms'
  /\ PhaseOf(rooms'[IdOf(Snap(c))]) = "FINISHED"

\* C1: calculateFinalScores adds to every player's totalScore 1 per O cell,
\* 2 per STAR cell, 3, 2, 1 for the rows and 1, 2, 3 for the columns whose
\* three cells are all O or STAR; X and NONE cells add nothing and break a
\* bingo.
C1_ScoringFormula ==
  [][\A c \in Uids :
       Scored(c) =>
         \A u \in DOMAIN PlayersOf(Snap(c)) :
           LET before == PlayersOf(Snap(c))[u]
               after == PlayersOf(rooms'[IdOf(Snap(c))])[u]
           IN after.totalScore
                = before.totalScore
                  + Marked(before.grid, "O") + (2 * Marked(before.grid, "STAR"))
                  + LineBonuses(before.grid, GridRows, <<3, 2, 1>>)
                  + LineBonuses(before.grid, GridCols, <<1, 2, 3>>)]_vars

\* A round was scored in which a grid of nine STAR cells earned 18 + 6 + 6.
C1_Witness ==
  \E rid \in DOMAIN rooms :
    /\ PhaseOf(rooms[rid]) = "FINISHED"
    /\ \E u \in DOMAIN PlayersOf(rooms[rid]) :
         /\ \A i \in Cells : rooms[rid].players[u].grid[i].score = "STAR"
         /\ rooms[rid].players[u].totalScore = 3 + 30

\* C2: in the round total a STAR cell counts 3, an O cell 1 and an X cell 0,
\* as the legend under the board says (stated on the grids without a bingo,
\* where the round total is the sum of the cells).
C2_StarWorthThree ==
  [][\A c \in Uids :
       Scored(c) =>
         \A u \in DOMAIN PlayersOf(Snap(c)) :
           LET before == PlayersOf(Snap(c))[u]
               after == PlayersOf(rooms'[IdOf(Snap(c))])[u]
           IN (/\ \A k \in 1 .. 3 : ~Bingo(before.grid, GridRows[k])
               /\ \A k \in 1 .. 3 : ~Bingo(before.grid, GridCols[k]))
              => after.totalScore
                   = before.totalScore
                     + Marked(before.grid, "O") + (3 * Marked(before.grid, "STAR"))]_vars

(* ------------------------------ phases -------------------------------- *)
\* The steps of the phase the game has: one forward, and the restart.
PhaseMoves ==
  {<<PhasePath[k], PhasePath[k + 1]>> : k \in 1 .. (Len(PhasePath) - 1)}
    \cup {<<"VALIDATION", SELECT_TOPICS>>, <<"FINISHED", SELECT_TOPICS>>}

CreatedAtOf(r) == IF "createdAt" \in DOMAIN r THEN r.createdAt ELSE -1

\* Every client that shows the room of this code shows the room the store
\* has under it, and not one that another was created over (handleCreateRoom
\* drew the code again).
SameRoom(rid) ==
  \A c \in Uids :
    (Subscribed(c, rid) /\ room[c] /= <<>>)
      => CreatedAtOf(Snap(c)) = CreatedAtOf(RoomAt(rid))

\* C3: the phase stored for a room only moves one step forward along the
\* path from LOBBY to FINISHED, or from VALIDATION or FINISHED back to
\* SELECT_TOPICS, whatever the clients do (stated for the steps within one
\* room: no room code was drawn twice).
C3_PhaseMovesOnly ==
  [][\A rid \in DOMAIN rooms \cap DOMAIN rooms' :
       (/\ PhaseOf(rooms'[rid]) /= PhaseOf(rooms[rid])
        /\ SameRoom(rid)
        /\ CreatedAtOf(rooms'[rid]) = CreatedAtOf(rooms[rid]))
         => <<PhaseOf(rooms[rid]), PhaseOf(rooms'[rid])>> \in PhaseMoves]_vars

\* C4: the phase of every room in the store is one of the six phases, each a
\* member of the GamePhase enumeration the code declares: no step (Start Game
\* and Restart Round included) stores another value.
C4_PhaseDeclared ==
  [][\A rid \in DOMAIN rooms' :
       (rid \notin DOMAIN rooms \/ PhaseOf(rooms'[rid]) /= PhaseOf(rooms[rid]))
         => PhaseOf(rooms'[rid]) \in GamePhase]_vars

(* ----------------------------- host claims ---------------------------- *)
\* C5: when the host of a room is gone, only one client, the active player
\* with the smallest id, writes the host reassignment: no two different
\* clients have sent a host claim for the same departure (the same room and
\* the same host that left).
C5_OneClaimant ==
  \A c \in Uids, d \in Uids :
    \A i \in DOMAIN claims[c], j \in DOMAIN claims[d] :
      (claims[c][i].rid = claims[d][j].rid
         /\ claims[c][i].oldHostId = claims[d][j].oldHostId)
        => c = d

(* ------------------------ the host goes, fairly ----------------------- *)
\* A round being scored by three players, the creator hosting.
InitFailover ==
  \E rid \in RoomIds, name \in Names : InitPlayed(rid, name, "a", {"b", "c"}, "SCORING")

\* The players go, those who stay score their cells.
NextFailover ==
  \/ \E c \in Uids : handleLeaveRoom(c)
  \/ \E c \in Uids : LeaveRead(c)
  \/ \E c \in Uids : LeaveWrite(c)
  \/ \E c \in Uids : Deliver(c)
  \/ \E c \in Uids : ClaimWrite(c)
  \/ \E c \in Uids : Disconnect(c)
  \/ \E c \in Uids, i \in GridIndexes : cycleScore(c, i)

\* What the network and the database owe: every notification is delivered,
\* every write sent arrives, every read of leaveRoom returns (a run has
\* finitely many of them: it is enough that one of those pending happens).
Delivered == \E c \in Uids : Deliver(c) \/ ClaimWrite(c) \/ LeaveRead(c) \/ LeaveWrite(c)
Delivery == WF_vars(Delivered)

SpecFailover == InitFailover /\ [][NextFailover]_vars /\ Delivery

\* The client of player u shows the room and is not on its way out.
Connected(u, rid) == Subscribed(u, rid) /\ room[u] /= <<>> /\ leaving[u] = <<>>

\* The host of the room has gone while another player is still there,
\* connected and active.
HostWentAndOneStays(rid) ==
  /\ rid \in DOMAIN rooms
  /\ ~Connected(HostIdOf(rooms[rid]), rid)
  /\ \E u \in ActiveIds(rooms[rid]) \ {HostIdOf(rooms[rid])} : Connected(u, rid)

\* hostId names a player whose status is not 'leaved'.
HostNamesPlayerNotLeaved(rid) ==
  /\ rid \in DOMAIN rooms
  /\ HostIdOf(rooms[rid]) \in ActiveIds(rooms[rid])

\* Nothing is pending: every notification was delivered, every write sent
\* arrived, no call of the service is in progress.  Under Delivery every run
\* comes to such a state once the users do nothing more, and stays in it.
AtRest ==
  \A c \in Uids :
    /\ claims[c] = <<>> /\ leaving[c] = <<>> /\ joining[c] = <<>>
    /\ Subscribed(c, roomId[c])
         => /\ lag[c] = 0
            /\ roomId[c] \in DOMAIN rooms => room[c] = <<rooms[roomId[c]]>>

\* C6: if the host of a room disconnects or leaves while another player
\* remains connected and active, then eventually, under fair delivery,
\* hostId names a player whose status is not 'leaved': when everything was
\* delivered and such a player is still there, hostId names one.
C6_HostNotLeavedAtRest ==
  \A rid \in RoomIds :
    (AtRest /\ HostWentAndOneStays(rid)) => HostNamesPlayerNotLeaved(rid)

(* ------------------------------ players ------------------------------- *)
\* C7: as long as a room exists in the store, the set of the player ids in
\* its players map never shrinks, whatever joinRoom, leaveRoom, disconnects
\* and game writes do (stated for the steps within one room: no room code
\* was drawn twice).
C7_PlayersNeverShrink ==
  [][\A rid \in DOMAIN rooms \cap DOMAIN rooms' :
       (SameRoom(rid) /\ CreatedAtOf(rooms'[rid]) = CreatedAtOf(rooms[rid]))
         => DOMAIN PlayersOf(rooms[rid]) \subseteq DOMAIN PlayersOf(rooms'[rid])]_vars

(* ------------------------------ leaveRoom ----------------------------- *)
\* The step in which the leaveRoom of client c returns.
LeaveCompletes(c) ==
  \/ LeaveRead(c) /\ leaving'[c] = <<>>
  \/ LeaveWrite(c)

\* No write came between the steps of the leaveRoom of client c: the room is
\* as its first write left it.
LeaveAlone(c) ==
  LET l == leaving[c][1] IN
  /\ l.rid \in DOMAIN rooms
  /\ rooms[l.rid] = l.marked
  /\ l.read /= <<>> => l.read[1] = l.marked

\* C8: when a leaveRoom that ran without interleaved writes returns, the
\* room is removed from the store if and only if every player in it, the
\* leaver included, has status 'leaved', for the host and for a regular
\* player.
C8_RemovedIffAllLeaved ==
  [][\A c \in Uids :
       (leaving[c] /= <<>> /\ LeaveAlone(c) /\ LeaveCompletes(c))
         => LET rid == leaving[c][1].rid IN
            (rid \notin DOMAIN rooms')
              <=> \A u \in DOMAIN PlayersOf(rooms[rid]) :
                    StatusOf(PlayersOf(rooms[rid])[u]) = "leaved"]_vars

\* A leaveRoom returned having removed the room: nobody was left in it.
C8_Witness ==
  /\ rooms = EmptyMap
  /\ \E c \in Uids : user[c] /= <<>> /\ roomId[c] = "" /\ leaving[c] = <<>>
  /\ \A c \in Uids : claims[c] = <<>>

\* C9: when the host calls leaveRoom while another player has a status other
\* than 'leaved', then once the call returned (no interleaved writes) hostId
\* is the id of one of those players, whose isHost is true, and the leaver's
\* isHost is false and its status 'leaved'.
C9_HostHandedOver ==
  [][\A c \in Uids :
       (leaving[c] /= <<>> /\ LeaveAlone(c) /\ LeaveCompletes(c))
         => LET rid == leaving[c][1].rid
                others == ActiveIds(rooms[rid]) \ {c}
            IN (HostIdOf(rooms[rid]) = c /\ others /= {})
                 => /\ rid \in DOMAIN rooms'
                    /\ HostIdOf(rooms'[rid]) \in others
                    /\ IsHostOf(PlayersOf(rooms'[rid])[HostIdOf(rooms'[rid])])
                    /\ ~IsHostOf(PlayersOf(rooms'[rid])[c])
                    /\ StatusOf(PlayersOf(rooms'[rid])[c]) = "leaved"]_vars

(* ------------------------------ joinRoom ------------------------------ *)
\* A room just created: its creator alone in the lobby.
InitJoin ==
  \E rid \in RoomIds, name \in Names : InitPlayed(rid, name, "a", {}, "LOBBY")

\* The others join and the players leave.
NextJoin ==
  \/ \E c \in Uids, name \in Names, rid \in RoomIds : handleJoinRoom(c, name, rid)
  \/ \E c \in Uids : JoinWrite(c)
  \/ \E c \in Uids : handleLeaveRoom(c)
  \/ \E c \in Uids : LeaveRead(c)
  \/ \E c \in Uids : LeaveWrite(c)
  \/ \E c \in Uids : Deliver(c)
  \/ \E c \in Uids : ClaimWrite(c)

SpecJoin == InitJoin /\ [][NextJoin]_vars

\* handleJoinRoom of client c for a room code the store has no room under.
JoinsMissingRoom(c, rid) ==
  /\ rid \notin DOMAIN rooms
  /\ \E name \in Names : ~NameTooLong(name) /\ handleJoinRoom(c, name, rid)

\* C10: joinRoom on a room id that is not in the store rejects with "Room not
\* found" and writes nothing to the store; handleJoinRoom then shows that
\* text as the error and the client stays out: its roomId is empty, its room
\* null, and no hook and no join are left behind.
C10_JoinMissingRoom ==
  [][\A c \in Uids, rid \in RoomIds :
       JoinsMissingRoom(c, rid)
         => /\ rooms' = rooms
            /\ onDisc' = onDisc
            /\ error'[c] = "Room not found"
            /\ roomId'[c] = "" /\ room'[c] = <<>>
            /\ joining'[c] = <<>>
            /\ user' = user]_vars

(* ----------------------- writes the store refuses -------------------- *)
\* err.message of the error a refused write rejects with (the rules deny it,
\* the connection is gone).
Messages == {"", "PERMISSION_DENIED"}

\* err.message || fallback
MessageOr(msg, fallback) == IF msg = "" THEN fallback ELSE msg

\* A handler of client c whose db.updateRoom rejects, outside any try: the
\* store keeps what it has, the rejection is nobody's, and `room` keeps the
\* objects the handler has assigned to (local).
Refused(c, local) ==
  /\ Move
  /\ room' = [room EXCEPT ![c] = <<local>>]
  /\ UNCHANGED <<rooms, onDisc, stored, user, roomId, error, joining, leaving, claims, lag>>

\* handleCreateRoom whose saveRoom throws: setUser and setRoomId are done.
saveRoomFails(c, name, rid) ==
  /\ AtEntry(c) /\ Idle(c) /\ ~NameTooLong(name)
  /\ Move
  /\ stored' = [stored EXCEPT ![c] = <<name>>]
  /\ user' = [user EXCEPT ![c] = <<[id |-> c, name |-> name]>>]
  /\ roomId' = [roomId EXCEPT ![c] = rid]
  /\ lag' = [lag EXCEPT ![c] = 0]
  /\ UNCHANGED <<rooms, onDisc, room, error, joining, leaving, claims>>

\* joinRoom whose update of the players rejects: handleJoinRoom's catch.
joinRoomFails(c, msg) ==
  /\ joining[c] /= <<>>
  /\ error' = [error EXCEPT ![c] = MessageOr(msg, "Failed to join room")]
  /\ joining' = [joining EXCEPT ![c] = <<>>]
  /\ UNCHANGED <<rooms, onDisc, stored, user, roomId, room, leaving, claims, lag, moves>>

\* leaveRoom whose first update rejects: handleLeaveRoom's catch.
leaveRoomFails(c, msg) ==
  /\ InGame(c) /\ Idle(c)
  /\ Move
  /\ error' = [error EXCEPT ![c] = MessageOr(msg, "Failed to leave room")]
  /\ UNCHANGED <<rooms, onDisc, stored, user, roomId, room, joining, leaving, claims, lag>>

\* leaveRoom whose last write rejects: the leaver stays marked, and in the room.
LeaveWriteFails(c, msg) ==
  /\ leaving[c] /= <<>> /\ leaving[c][1].pc = "read"
  /\ error' = [error EXCEPT ![c] = MessageOr(msg, "Failed to leave room")]
  /\ leaving' = [leaving EXCEPT ![c] = <<>>]
  /\ UNCHANGED <<rooms, onDisc, stored, user, roomId, room, joining, claims, lag, moves>>

updatePhaseFails(c, shown) ==
  /\ IsHostView(c) /\ PhaseOf(Snap(c)) = shown
  /\ Refused(c, Snap(c))

SetTopicFails(c, i, text) ==
  /\ IsHostView(c) /\ PhaseOf(Snap(c)) = SELECT_TOPICS
  /\ newTopics(Snap(c), i, text) /= <<>>
  /\ Refused(c, Snap(c))

handleRestartFails(c) ==
  /\ IsHostView(c) /\ PhaseOf(Snap(c)) \in {"VALIDATION", "FINISHED"}
  /\ Refused(c, Snap(c))

saveGridToDbFails(c, gridIndex, word) ==
  /\ HasGrid(c) /\ PhaseOf(Snap(c)) = "WRITING"
  /\ Refused(c, WithCell(Snap(c), c, gridIndex, "word", word))

cycleScoreFails(c, gridIndex) ==
  /\ HasGrid(c) /\ PhaseOf(Snap(c)) \in {"SCORING", "VALIDATION"}
  /\ LET cur == PlayersOf(Snap(c))[c].grid[gridIndex].score IN
     Refused(c, WithCell(Snap(c), c, gridIndex, "score", nextScore(cur)))

calculateFinalScoresFails(c) ==
  /\ IsHostView(c) /\ PhaseOf(Snap(c)) = "VALIDATION"
  /\ \A u \in DOMAIN PlayersOf(Snap(c)) : "grid" \in DOMAIN PlayersOf(Snap(c))[u]
  /\ Refused(c, Merge(Snap(c), [players |-> scoredPlayers(PlayersOf(Snap(c)))]))

\* The update of the host claim rejects: .catch(err => console.error(...)).
\* The listener gets the room of the store back with the next notification.
ClaimWriteFails(c) ==
  /\ claims[c] /= <<>>
  /\ claims' = [claims EXCEPT ![c] = Tail(@)]
  /\ UNCHANGED <<rooms, onDisc, stored, user, roomId, room, error, joining, leaving, lag, moves>>

\* A store operation of client c fails in this step.
FailedOperation(c) ==
  \/ \E name \in Names, rid \in RoomIds : saveRoomFails(c, name, rid)
  \/ \E msg \in Messages : joinRoomFails(c, msg)
  \/ \E msg \in Messages : leaveRoomFails(c, msg)
  \/ \E msg \in Messages : LeaveWriteFails(c, msg)
  \/ \E b \in PhaseButtons : updatePhaseFails(c, b[1])
  \/ \E i \in TopicIndexes, text \in TopicTexts : SetTopicFails(c, i, text)
  \/ handleRestartFails(c)
  \/ \E i \in GridIndexes, w \in Words : saveGridToDbFails(c, i, w)
  \/ \E i \in GridIndexes : cycleScoreFails(c, i)
  \/ calculateFinalScoresFails(c)
  \/ ClaimWriteFails(c)

\* The games of Init, in which the store refuses writes.
NextFail ==
  \/ \E c \in Uids, name \in Names, rid \in RoomIds : saveRoomFails(c, name, rid)
  \/ \E c \in Uids, msg \in Messages : joinRoomFails(c, msg)
  \/ \E c \in Uids, msg \in Messages : leaveRoomFails(c, msg)
  \/ \E c \in Uids, msg \in Messages : LeaveWriteFails(c, msg)
  \/ \E c \in Uids, b \in PhaseButtons : updatePhaseFails(c, b[1])
  \/ \E c \in Uids, i \in TopicIndexes, text \in TopicTexts : SetTopicFails(c, i, text)
  \/ \E c \in Uids : handleRestartFails(c)
  \/ \E c \in Uids, i \in GridIndexes, w \in Words : saveGridToDbFails(c, i, w)
  \/ \E c \in Uids, i \in GridIndexes : cycleScoreFails(c, i)
  \/ \E c \in Uids : calculateFinalScoresFails(c)
  \/ \E c \in Uids : ClaimWriteFails(c)
  \/ \E c \in Uids, name \in Names, rid \in RoomIds : handleJoinRoom(c, name, rid)
  \/ \E c \in Uids : handleLeaveRoom(c)
  \/ \E c \in Uids : LeaveRead(c)
  \/ \E c \in Uids : Deliver(c)

SpecFail == Init /\ [][NextFail]_vars

\* C11: every failed store operation a client issues (room creation, join,
\* leave, phase change, topic write, grid write, score cycle, final scoring,
\* restart, host claim) leaves that client's error message set to a
\* non-empty string.
C11_FailureShowsError ==
  [][\A c \in Uids : FailedOperation(c) => error'[c] /= ""]_vars

(* ------------------------------- rejoin ------------------------------- *)
\* A round being scored by the creator and a guest.
InitRejoin ==
  \E rid \in RoomIds, name \in Names : InitPlayed(rid, name, "a", {"b"}, "SCORING")

\* The players score their cells, go, and come back.
NextRejoin ==
  \/ \E c \in Uids, i \in GridIndexes : cycleScore(c, i)
  \/ \E c \in Uids : handleLeaveRoom(c)
  \/ \E c \in Uids : LeaveRead(c)
  \/ \E c \in Uids : LeaveWrite(c)
  \/ \E c \in Uids : Disconnect(c)
  \/ \E c \in Uids, name \in Names, rid \in RoomIds : handleJoinRoom(c, name, rid)
  \/ \E c \in Uids : JoinWrite(c)
  \/ \E c \in Uids : Deliver(c)
  \/ \E c \in Uids : ClaimWrite(c)

SpecRejoin == InitRejoin /\ [][NextRejoin]_vars

\* The entry `new` is the entry `old` with the name given and status 'active',
\* and every other field as it was.
KeptBut(old, new, name) ==
  /\ DOMAIN new = DOMAIN old \cup {"name", "status"}
  /\ \A k \in DOMAIN old \ {"name", "status"} : new[k] = old[k]
  /\ new.name = name
  /\ new.status = "active"

\* C12: joinRoom by a uid that has an entry in the players map of the room it
\* read keeps that entry's grid, totalScore, isHost and isReady and changes
\* only its name (to the name given) and its status (to 'active'); the
\* entry it writes is the one it computed.
C12_RejoinKeepsEntry ==
  [][\A c \in Uids :
       /\ \A name \in Names, rid \in RoomIds :
            (/\ handleJoinRoom(c, name, rid)
             /\ rid \in DOMAIN rooms
             /\ c \in DOMAIN PlayersOf(rooms[rid])
             /\ ~NameTooLong(name))
              => /\ joining'[c] /= <<>>
                 /\ KeptBut(rooms[rid].players[c], joining'[c][1].players[c], name)
       /\ JoinWrite(c)
            => /\ joining[c][1].rid \in DOMAIN rooms'
               /\ PlayersOf(rooms'[joining[c][1].rid])[c] = joining[c][1].players[c]]_vars

\* A player who scored a cell and went is back in the room, its joinRoom just
\* resolved: the cell is still scored.
C12_Witness ==
  \E c \in Uids, rid \in DOMAIN rooms :
    /\ roomId[c] = rid /\ room[c] = <<>> /\ user[c] /= <<>>
    /\ c \in DOMAIN PlayersOf(rooms[rid])
    /\ StatusOf(rooms[rid].players[c]) = "active"
    /\ "grid" \in DOMAIN rooms[rid].players[c]
    /\ rooms[rid].players[c].grid[0].score = "O"

(* --------------------------- player entries --------------------------- *)
\* The entry p under the key `key` has what a Player has.
IsPlayer(key, p) ==
  /\ {"id", "name", "isHost", "grid", "totalScore", "status"} \subseteq DOMAIN p
  /\ p.id = key
  /\ DOMAIN p.grid = Cells
  /\ \A i \in Cells : p.grid[i].score \in ScoreType

\* C13: in every reachable state every player entry of every room in the
\* store has a grid of exactly 9 cells, each with a score in {NONE, O, X,
\* STAR}, an id equal to its key, a name, an isHost flag, a totalScore and a
\* status.
C13_PlayersComplete ==
  \A rid \in DOMAIN rooms :
    \A u \in DOMAIN PlayersOf(rooms[rid]) : IsPlayer(u, rooms[rid].players[u])

(* ------------------------------- rounds ------------------------------- *)
\* The room r in the store with the players `in` showing it (the guests
\* among them came through joinRoom), every notification delivered, nothing
\* in progress.
InitRoom(r, in, guests) ==
  /\ rooms = [k \in {r.id} |-> r]
  /\ onDisc = {<<r.id, g>> : g \in guests}
  /\ stored = [c \in Uids |-> IF c \in in THEN <<r.players[c].name>> ELSE <<>>]
  /\ user = [c \in Uids |-> IF c \in in THEN <<[id |-> c, name |-> r.players[c].name]>> ELSE <<>>]
  /\ roomId = [c \in Uids |-> IF c \in in THEN r.id ELSE ""]
  /\ room = [c \in Uids |-> IF c \in in THEN <<r>> ELSE <<>>]
  /\ error = [c \in Uids |-> ""]
  /\ joining = [c \in Uids |-> <<>>]
  /\ leaving = [c \in Uids |-> <<>>]
  /\ claims = [c \in Uids |-> <<>>]
  /\ lag = [c \in Uids |-> 0]
  /\ moves = 0

\* A round in VALIDATION, the creator hosting one guest: each has clicked
\* its first cell up to the score it wants (cycleScore).
InitRounds ==
  \E rid \in RoomIds, name \in Names, marks \in [{"a", "b"} -> ScoreType] :
    LET r0 == PlayedRoom(rid, name, "a", {"b"}, "VALIDATION")
        r == [r0 EXCEPT !.players =
                [u \in {"a", "b"} |-> [r0.players[u] EXCEPT !.grid[0].score = marks[u]]]]
    IN InitRoom(r, {"a", "b"}, {"b"})

\* The rounds are finished and restarted, while players score and leave.
NextRounds ==
  \/ \E c \in Uids : calculateFinalScores(c)
  \/ \E c \in Uids : handleRestart(c)
  \/ \E c \in Uids, b \in PhaseButtons : updatePhase(c, b[1], b[2])
  \/ \E c \in Uids, i \in GridIndexes : cycleScore(c, i)
  \/ \E c \in Uids : handleLeaveRoom(c)
  \/ \E c \in Uids : LeaveRead(c)
  \/ \E c \in Uids : LeaveWrite(c)
  \/ \E c \in Uids : Deliver(c)
  \/ \E c \in Uids : ClaimWrite(c)

SpecRounds == InitRounds /\ [][NextRounds]_vars

\* C14: a player's totalScore is a running total, the sum of its round
\* scores over the rounds that reached FINISHED, each counted once: the step
\* that brings the room to FINISHED adds the round score of the player's
\* grid, and no other step (another 'Confirm & Finish Game', handleRestart)
\* changes the totalScore.
C14_RunningTotal ==
  [][\A rid \in DOMAIN rooms \cap DOMAIN rooms' :
       \A u \in DOMAIN PlayersOf(rooms[rid]) \cap DOMAIN PlayersOf(rooms'[rid]) :
         LET before == rooms[rid].players[u]
             after == rooms'[rid].players[u]
         IN ({"totalScore", "grid"} \subseteq DOMAIN before \cap DOMAIN after)
              => IF PhaseOf(rooms[rid]) /= "FINISHED" /\ PhaseOf(rooms'[rid]) = "FINISHED"
                 THEN after.totalScore = before.totalScore + RoundTotal(after.grid)
                 ELSE after.totalScore = before.totalScore]_vars

(* --------------------------- a removed room --------------------------- *)
\* The client of c shows a room that is not in the store any more.
ShowsRemoved(c) ==
  Subscribed(c, roomId[c]) /\ room[c] /= <<>> /\ roomId[c] \notin DOMAIN rooms

\* C15: when a room is removed from the store, every client subscribed to it
\* eventually clears its room and its roomId and is back on the entry
\* screen: once everything was delivered (from where on nothing happens
\* unless a user acts), no client shows a removed room.
C15_RemovedRoomCleared ==
  AtRest => \A c \in Uids : ~ShowsRemoved(c)

(* ----------------------------- disconnects ---------------------------- *)
\* The room r2 is the room r but for the status of player c, now 'leaved'.
MarkedLeaved(r, r2, c) ==
  /\ DOMAIN r2 = DOMAIN r
  /\ \A k \in DOMAIN r \ {"players"} : r2[k] = r[k]
  /\ DOMAIN PlayersOf(r2) = DOMAIN PlayersOf(r)
  /\ \A u \in DOMAIN PlayersOf(r) \ {c} : r2.players[u] = r.players[u]
  /\ c \in DOMAIN PlayersOf(r)
  /\ r2.players[c] = Merge(r.players[c], [status |-> "leaved"])

\* C16: a client disconnecting, host or not, removes no room and no player
\* entry: all a disconnect does to the store is to set the status of the
\* disconnected player to 'leaved', in the rooms the player entered through
\* joinRoom; nothing else appears, disappears or changes.
C16_DisconnectOnlyMarks ==
  [][\A c \in Uids :
       Disconnect(c)
         => /\ DOMAIN rooms' = DOMAIN rooms
            /\ \A rid \in DOMAIN rooms :
                 \/ rooms'[rid] = rooms[rid]
                 \/ <<rid, c>> \in onDisc /\ MarkedLeaved(rooms[rid], rooms'[rid], c)]_vars

(* ------------------------------ long names ---------------------------- *)
\* Names of 25 characters and of 24: the name input stops at 24 characters
\* (maxLength), but it is prefilled from localStorage, which nothing measures.
LongNames == {"abcdefghijklmnopqrstuvwxy"}
FullNames == {"abcdefghijklmnopqrstuvwx"}

\* Rooms are created and joined under names of any length.
NextNames ==
  \/ \E c \in Uids, name \in Names \cup FullNames \cup LongNames, rid \in RoomIds :
       handleCreateRoom(c, name, rid)
  \/ \E c \in Uids, name \in Names \cup FullNames \cup LongNames, rid \in RoomIds :
       handleJoinRoom(c, name, rid)
  \/ \E c \in Uids : JoinWrite(c)
  \/ \E c \in Uids : Deliver(c)

SpecNames == Init /\ [][NextNames]_vars

NameError == "Name must be 24 characters or less"

\* C17: handleCreateRoom and handleJoinRoom called with a name longer than 24
\* characters set the error 'Name must be 24 characters or less' and change
\* nothing else: the store, the client's user and roomId, the name it has
\* stored, its room, and all of the other clients stay as they are.
C17_LongNameRejected ==
  [][\A c \in Uids, name \in LongNames, rid \in RoomIds :
       (handleCreateRoom(c, name, rid) \/ handleJoinRoom(c, name, rid))
         => /\ error' = [error EXCEPT ![c] = "Name must be 24 characters or less"]
            /\ UNCHANGED <<rooms, onDisc, stored, user, roomId, room, joining,
                           leaving, claims, lag>>]_vars

\* A client was told that its name is too long, and has got no further: it
\* has stored no name, and a name of 24 characters was let through.
C17_Witness ==
  /\ \E c \in Uids : error[c] = NameError /\ stored[c] = <<>> /\ user[c] = <<>>
  /\ \E d \in Uids : stored[d] \in {<<n>> : n \in FullNames}

(* ------------------------------ room codes ---------------------------- *)
\* Math.random() is a double in [0, 1): k / 2^DrawBits for a k below
\* 2^DrawBits.  The arithmetic below is that of the doubles (every result is
\* rounded to the nearest value the significand can hold, ties to even) on
\* a significand of DrawBits bits in the place of 53.
DrawBits == 15

RECURSIVE Pow2(_)
Pow2(n) == IF n = 0 THEN 1 ELSE 2 * Pow2(n - 1)

Draws == 0 .. (Pow2(DrawBits) - 1)

RECURSIVE BitLength(_)
BitLength(n) == IF n = 0 THEN 0 ELSE 1 + BitLength(n \div 2)

\* n / 2^DrawBits as the nearest double, times 2^DrawBits.
Rounded(n) ==
  LET d == BitLength(n) - DrawBits IN
  IF d <= 0 THEN n
  ELSE LET q == n \div Pow2(d)
           r == n % Pow2(d)
           half == Pow2(d - 1)
       IN (IF r > half \/ (r = half /\ q % 2 = 1) THEN q + 1 ELSE q) * Pow2(d)

\* The code with a range one too wide: a variation the property of the room
\* codes is tried against.
RoomCodeWide(k) ==
  ToString(Rounded((1000 * Pow2(DrawBits)) + Rounded(k * 9001)) \div Pow2(DrawBits))

\* Math.floor(1000 + Math.random() * 9000).toString()
RoomCode(k) ==
  ToString(Rounded((1000 * Pow2(DrawBits)) + Rounded(k * 9000)) \div Pow2(DrawBits))

\* One room is created, under the code of any draw.
NextCode ==
  /\ moves = 0
  /\ \E c \in Uids, name \in Names, k \in Draws :
       \E rid \in {RoomCode(k)} : handleCreateRoom(c, name, rid)

SpecCode == InitEmpty /\ [][NextCode]_vars

FourDigitCodes == {ToString(n) : n \in 1000 .. 9999}

\* C18: every room id handleCreateRoom generates is a 4-digit decimal code,
\* an integer from 1000 to 9999, for every value of the random draw in
\* [0, 1).
C18_FourDigitCode ==
  /\ DOMAIN rooms \subseteq FourDigitCodes
  /\ \A c \in Uids : roomId[c] /= "" => (roomId[c] \in FourDigitCodes /\ Len(roomId[c]) = 4)

\* A room was created under the last code of the range.
C18_Witness ==
  \E c \in Uids : roomId[c] = "9999" /\ "9999" \in DOMAIN rooms

(* ------------------------------ one host ------------------------------ *)
\* The room r is whole: it has its hostId and every entry has what a Player has.
Whole(r) ==
  /\ "hostId" \in DOMAIN r
  /\ \A u \in DOMAIN PlayersOf(r) : IsPlayer(u, r.players[u])

\* C19: in every reachable state of an existing room, hostId names a player
\* present in the players map, that player's isHost is true, and no other
\* player's isHost is true, whatever leaveRoom, the host claims and the
\* rejoins do (stated for the rooms that are whole).
C19_OneHost ==
  \A rid \in DOMAIN rooms :
    Whole(rooms[rid])
      => /\ rooms[rid].hostId \in DOMAIN PlayersOf(rooms[rid])
         /\ \A u \in DOMAIN PlayersOf(rooms[rid]) :
              rooms[rid].players[u].isHost <=> (u = rooms[rid].hostId)

(* -------------------------- concurrent joins -------------------------- *)
\* The joinRoom of client c to the room rid has resolved (its hook is
\* registered, handleJoinRoom has set the roomId) and c has not left since.
Joined(c, rid) ==
  /\ <<rid, c>> \in onDisc
  /\ Subscribed(c, rid)
  /\ leaving[c] = <<>>

\* C20: when two players call joinRoom on the same existing room at the same
\* time and both calls resolve, both are in the players map afterwards: a
\* player whose join has resolved is in the map of its room, whatever the
\* others have written to the map since.
C20_JoinsNotLost ==
  \A rid \in DOMAIN rooms :
    \A c \in Uids : Joined(c, rid) => c \in DOMAIN PlayersOf(rooms[rid])

(* ---------------------------- one cell written ------------------------ *)
\* A table of two in the writing phase: the host a and the guest b.
InitGrid ==
  \E rid \in RoomIds, name \in Names : InitPlayed(rid, name, "a", {"b"}, "WRITING")

\* The players write and score their cells while the host moves the round on.
NextGrid ==
  \/ \E c \in Uids, i \in GridIndexes, w \in Words : updateGrid(c, i, w)
  \/ \E c \in Uids, i \in GridIndexes, w \in Words : saveGridToDb(c, i, w)
  \/ \E c \in Uids, b \in PhaseButtons : updatePhase(c, b[1], b[2])
  \/ \E c \in Uids, i \in GridIndexes : cycleScore(c, i)
  \/ \E c \in Uids : handleRestart(c)
  \/ \E c \in Uids : Deliver(c)

SpecGrid == InitGrid /\ [][NextGrid]_vars

\* The room r2 is the room r but for the field `field` of the cell gridIndex
\* of the grid of player c.
OnlyCell(r, r2, c, gridIndex, field) ==
  /\ DOMAIN r2 = DOMAIN r
  /\ \A k \in DOMAIN r \ {"players"} : r2[k] = r[k]
  /\ DOMAIN PlayersOf(r2) = DOMAIN PlayersOf(r)
  /\ \A u \in DOMAIN PlayersOf(r) \ {c} : r2.players[u] = r.players[u]
  /\ c \in DOMAIN PlayersOf(r)
  /\ DOMAIN r2.players[c] = DOMAIN r.players[c]
  /\ \A k \in DOMAIN r.players[c] \ {"grid"} : r2.players[c][k] = r.players[c][k]
  /\ "grid" \in DOMAIN r.players[c]
  /\ \A j \in Cells \ {gridIndex} : r2.players[c].grid[j] = r.players[c].grid[j]
  /\ \A k \in {"word", "score"} \ {field} :
       r2.players[c].grid[gridIndex][k] = r.players[c].grid[gridIndex][k]

\* C21: cycleScore and saveGridToDb called by a player change in the store
\* only the one cell gridIndex of that player's grid (its score, its word):
\* every other cell and every field of every other player keep the value
\* the store had just before the write, also when the caller's snapshot is
\* stale.
C21_OnlyOwnCell ==
  [][\A c \in Uids, i \in GridIndexes :
       /\ cycleScore(c, i)
            => /\ IdOf(Snap(c)) \in DOMAIN rooms \cap DOMAIN rooms'
               /\ OnlyCell(rooms[IdOf(Snap(c))], rooms'[IdOf(Snap(c))], c, i, "score")
       /\ (\E w \in Words : saveGridToDb(c, i, w))
            => /\ IdOf(Snap(c)) \in DOMAIN rooms \cap DOMAIN rooms'
               /\ OnlyCell(rooms[IdOf(Snap(c))], rooms'[IdOf(Snap(c))], c, i, "word")]_vars

(* ----------------------------- the locked board ------------------------ *)
\* The words of the grids of the room, player by player.
WordsOf(r) ==
  [u \in DOMAIN PlayersOf(r) |->
     IF "grid" \in DOMAIN PlayersOf(r)[u]
     THEN [i \in Cells |-> PlayersOf(r)[u].grid[i].word]
     ELSE EmptyMap]

\* The host has pressed Lock Board & Start Scoring and no restart has
\* followed in the store.
Locked(r) == PhaseOf(r) \in {"SCORING", "VALIDATION", "FINISHED"}

\* C22: once the phase in the store is SCORING (or a later phase of the
\* round), no step but a restart changes a word of any player's grid in the
\* store.
C22_BoardLocked ==
  [][\A rid \in DOMAIN rooms :
       (Locked(rooms[rid]) /\ ~ \E c \in Uids : handleRestart(c))
         => /\ rid \in DOMAIN rooms'
            /\ WordsOf(rooms'[rid]) = WordsOf(rooms[rid])]_vars

(* ------------------------- the host's operations ----------------------- *)
\* Client c sends a write of the phase or of the topics: a phase button, a
\* topic input, Calculate Final Scores, or Restart.
HostWrite(c) ==
  \/ \E b \in PhaseButtons : updatePhase(c, b[1], b[2])
  \/ \E i \in TopicIndexes, text \in TopicTexts :
       SetTopic(c, i, text) /\ newTopics(Snap(c), i, text) /= <<>>
  \/ calculateFinalScores(c)
  \/ handleRestart(c)

\* C23: a write of the phase or of the topics (a phase change, a topic, the
\* final scoring, a restart) comes only from the client that the room in the
\* store names as its host at the time of the write.
C23_HostOnlyWrites ==
  [][\A c \in Uids :
       HostWrite(c) => HostIdOf(RoomAt(IdOf(Snap(c)))) = c]_vars

(* -------------------------------- restart ------------------------------ *)
\* The fields of a player that a restart keeps.
KeptFields == {"id", "name", "isHost", "status", "totalScore"}

\* The room r2 is the room r restarted: the topic selection phase, three
\* empty topics, every player of r with an empty grid and not ready and
\* otherwise as in r, and no other player.
Restarted(r, r2) ==
  /\ PhaseOf(r2) = SELECT_TOPICS
  /\ "topics" \in DOMAIN r2 /\ r2.topics = emptyTopics
  /\ DOMAIN PlayersOf(r2) = DOMAIN PlayersOf(r)
  /\ \A u \in DOMAIN PlayersOf(r) :
       LET p == PlayersOf(r)[u]
           p2 == PlayersOf(r2)[u]
       IN /\ {"grid", "isReady"} \subseteq DOMAIN p2
          /\ p2.grid = createEmptyGrid
          /\ p2.isReady = FALSE
          /\ \A k \in KeptFields :
               /\ k \in DOMAIN p2 <=> k \in DOMAIN p
               /\ k \in DOMAIN p => p2[k] = p[k]

\* C24: handleRestart by the host sets in the store the phase to
\* SELECT_TOPICS, the topics to three empty strings and every player's grid
\* to nine empty cells with isReady false, leaves id, name, isHost, status
\* and totalScore of every player as they were, and adds or removes no
\* player.
C24_RestartResets ==
  [][\A c \in Uids :
       handleRestart(c) =>
         /\ IdOf(Snap(c)) \in DOMAIN rooms \cap DOMAIN rooms'
         /\ Restarted(rooms[IdOf(Snap(c))], rooms'[IdOf(Snap(c))])]_vars

====
